---- MODULE Spec2Model ----
(***************************************************************************)
(* ejtraderDB: the sqlite-backed map store DictSQLite (ejtraderDB/dict.py) *)
(* over the storage core, and the FIFO and acknowledgement queues that     *)
(* ejtraderDB/__init__.py exports.                                         *)
(*                                                                         *)
(* dict.py is translated method by method.  The storage core it inherits   *)
(* (ejtraderDB.sqlite_set: _insert_into, _update, _select, _delete,        *)
(* _count, _serializer) and the queue modules (sqlqueue, sqlackqueue) are  *)
(* not among the source files; they follow spec.md sections 4.1 to 4.6.    *)
(***************************************************************************)
EXTENDS Integers, Sequences, FiniteSets, TLC

\* ------------------------------------------------------------------ bounds

Keys == {"a", "b"}
Values == {"x", "y"}
Threads == {"t1", "t2"}
Producers == {"p1", "p2"}
Consumers == {"c1", "c2"}

\* puts per producer on the queue; puts on the acknowledgement queue
MaxPuts == 2
MaxAckPuts == 3

\* the most keyword arguments a QuestDB call gives a value other than the default
MaxNonDefault == 2

\* ------------------------------------------------------------- the state

VARIABLES
  table,        \* the dict table as the connection sees it: a set of rows <<key, data>>
  committed,    \* the rows that are durable on disk
  auto_commit,  \* the store's auto_commit field
  req_auto,     \* the auto_commit argument the caller gave to DictSQLite(...)
  pc,           \* per thread: "idle", or "except" between the failed INSERT and the UPDATE
  local,        \* per thread: the locals (key, obj) of a __setitem__ in flight
  last,         \* the step taken most recently: [thr, op, key, res]
  shadow,       \* per key, the value of the last set that returned, or Unset after a delete
  flushed,      \* the rows as of the last explicit flush (or as opened)
  lin,          \* per key, the outcomes some sequential order of the calls so far allows
  qrows,        \* the queue table: the present items, rows [seq, data]
  qseq,         \* the highest sequence the queue table ever assigned
  qlock,        \* the queue instance's lock: "free" or the thread holding it
  qpc,          \* per queue thread: "idle", "put", "select", "delete"
  qlocal,       \* per consumer: the row its get selected
  qputs,        \* per producer: the puts it has made
  created,      \* every record put, in order of sequence assignment: [seq, val]
  delivered,    \* every item a get returned, in order of return: [seq, val]
  arows,        \* the ack table: rows [seq, data, status]
  aseq,         \* the highest sequence the ack table ever assigned
  alast,        \* the ack-queue call made most recently: [op, id, res]
  qdb_pc,       \* the QuestDB call: "idle", "loop", "returned", "exited", "raised"
  qdb_route,    \* the route of the call made: "imp", "exec", "exp"
  qdb_args,     \* the arguments of the call, by formal parameter name
  qdb_env,      \* what the call finds outside: [exists, sql_ok]
  qdb_parameters, \* the call's `parameters` dict, in insertion order: <<k, v>>
  qdb_i,        \* the position of the checking loop in qdb_parameters
  qdb_url,      \* the query string built so far: the pairs <<k, text of v>>
  qdb_passed,   \* the parameters for which _check returned True
  qdb_request,  \* the HTTP requests issued: [method, route, url]
  qdb_out       \* how the call ended: its result, the exit status, or the exception

dictVars == <<table, committed, auto_commit, req_auto, pc, local, last, shadow, flushed, lin>>
queueVars == <<qrows, qseq, qlock, qpc, qlocal, qputs, created, delivered>>
ackVars == <<arows, aseq, alast>>

qdbVars == <<qdb_pc, qdb_route, qdb_args, qdb_env, qdb_parameters, qdb_i,
             qdb_url, qdb_passed, qdb_request, qdb_out>>

vars == <<dictVars, queueVars, ackVars, qdbVars>>

\* ------------------------------------------------------ results of a call

Return(v) == [kind |-> "return", val |-> v]
Raise(e) == [kind |-> "raise", val |-> e]

Unset == "unset"
NoLocal == <<>>

\* ----------------------------------------------------- codec (spec 4.3)

\* encode(value) -> bytes: a tagged frame around the value
dumps(value) == <<"P", value, ".">>

\* decode(bytes) -> value; malformed bytes fail with CodecError
loads(data) ==
  IF Len(data) = 3 /\ data[1] = "P" /\ data[3] = "."
  THEN Return(data[2])
  ELSE Raise("CodecError")

\* ---------------------------------------------- storage core (spec 4.1)

NoneRow == [isNone |-> TRUE, row |-> <<>>]
SomeRow(r) == [isNone |-> FALSE, row |-> r]

HasKey(tbl, key) == \E r \in tbl : r[1] = key

\* insert(table, key, payload): fails with ConflictError if key already exists
insert_into(tbl, key, obj) ==
  IF HasKey(tbl, key)
  THEN [res |-> Raise("IntegrityError"), tbl |-> tbl]
  ELSE [res |-> Return("rowid"), tbl |-> tbl \cup {<<key, obj>>}]

\* update(table, key, payload) -> bool: false if no matching record exists
update(tbl, key, obj) ==
  [res |-> Return(HasKey(tbl, key)),
   tbl |-> {IF r[1] = key THEN <<key, obj>> ELSE r : r \in tbl}]

\* select(table, key) -> Record | None
select(tbl, key) ==
  IF HasKey(tbl, key)
  THEN SomeRow(CHOOSE r \in tbl : r[1] = key)
  ELSE NoneRow

\* delete(table, key) -> void
delete(tbl, key) == [res |-> Return("None"), tbl |-> {r \in tbl : r[1] # key}]

\* count(table) -> integer
count(tbl) == Cardinality(tbl)

\* a mutating call commits at once under auto_commit, else waits for a flush
CommitAfter(tbl) == IF auto_commit THEN tbl ELSE committed

\* -------------------------------------------------- DictSQLite (dict.py)

\* __init__ with the argument dropped: the base class is told auto_commit=False
DictSQLite_init_dropped(auto) == FALSE

\* __init__: the auto_commit argument is handed to the base class as given
DictSQLite_init(auto) == auto

\* if row: (a row that is not None and not an empty tuple)
Truthy(r) == ~r.isNone /\ Len(r.row) > 0

\* __contains__ with the test inverted (row is None)
contains_inverted(tbl, item) == select(tbl, item).isNone

\* __contains__
contains(tbl, item) == ~select(tbl, item).isNone

\* __getitem__ answering None for an absent key instead of raising
getitem_default(tbl, item) ==
  LET row == select(tbl, item)
  IN  IF Truthy(row) THEN loads(row.row[2]) ELSE Return("None")

\* __getitem__
getitem(tbl, item) ==
  LET row == select(tbl, item)
  IN  IF Truthy(row) THEN loads(row.row[2]) ELSE Raise("KeyError")

\* __setitem__ serializing the key where it should serialize the value
setitem_try_dumps_key(tbl, key, value) == insert_into(tbl, key, dumps(key))

\* __setitem__, the try block: serialize and attempt the insert
setitem_try(tbl, key, value) == insert_into(tbl, key, dumps(value))

\* __setitem__ with the except block reduced to pass
setitem_except_pass(tbl, key, obj) == [res |-> Return(FALSE), tbl |-> tbl]

\* __setitem__, the except block: update the existing row
setitem_except(tbl, key, obj) == update(tbl, key, obj)

\* __delitem__ deleting without the WHERE clause: every row goes
delitem_all(tbl, key) == [res |-> Return("None"), tbl |-> {}]

\* __delitem__
delitem(tbl, key) == delete(tbl, key)

\* __len__
dict_len(tbl) == count(tbl)

\* __iter__, keys, iterkeys, values, itervalues, iteritems, items
dict_iter == Raise("NotImplementedError")
keys_empty == Return("[]")
keys == Raise("NotImplementedError")
iterkeys == Raise("NotImplementedError")
values == Raise("NotImplementedError")
itervalues == Raise("NotImplementedError")
iteritems == Raise("NotImplementedError")
items == Raise("NotImplementedError")

EnumMethods ==
  {"__iter__", "keys", "iterkeys", "values", "itervalues", "iteritems", "items"}

Enumerate(m) ==
  CASE m = "__iter__" -> dict_iter
    [] m = "keys" -> keys
    [] m = "iterkeys" -> iterkeys
    [] m = "values" -> values
    [] m = "itervalues" -> itervalues
    [] m = "iteritems" -> iteritems
    [] m = "items" -> items

\* ------------------------------------------------------------------ Init

Init ==
  /\ table = {}
  /\ committed = {}
  /\ flushed = {}
  /\ req_auto \in BOOLEAN
  /\ auto_commit = DictSQLite_init(req_auto)
  /\ pc = [t \in Threads |-> "idle"]
  /\ local = [t \in Threads |-> NoLocal]
  /\ last = [thr |-> "none", op |-> "open", key |-> "none", res |-> Return("None")]
  /\ shadow = [k \in Keys |-> Unset]
  /\ lin = [k \in Keys |-> {[val |-> Unset, done |-> {}]}]
  /\ qrows = {}
  /\ qseq = 0
  /\ qlock = "free"
  /\ qpc = [t \in Producers \cup Consumers |-> "idle"]
  /\ qlocal = [c \in Consumers |-> <<>>]
  /\ qputs = [p \in Producers |-> 0]
  /\ created = <<>>
  /\ delivered = <<>>
  /\ arows = {}
  /\ aseq = 0
  /\ alast = [op |-> "open", id |-> 0, res |-> Return("None")]
  /\ qdb_pc = "idle"
  /\ qdb_route = "none"
  /\ qdb_args = <<>>
  /\ qdb_env = [exists |-> TRUE, sql_ok |-> TRUE]
  /\ qdb_parameters = <<>>
  /\ qdb_i = 1
  /\ qdb_url = <<>>
  /\ qdb_passed = {}
  /\ qdb_request = <<>>
  /\ qdb_out = Return("None")

\* --------------------------------------------------------------- actions

Called(t, op, key, res) == [thr |-> t, op |-> op, key |-> key, res |-> res]

\* what a caller sees of key k: the value stored, or Unset
AbsVal(tbl, k) == IF contains(tbl, k) THEN getitem(tbl, k).val ELSE Unset

\* the threads whose set on key k is between its failed INSERT and its UPDATE
Pending(pcs, locals, k) ==
  {t \in Threads : pcs[t] = "except" /\ locals[t][1] = k}

\* a pending set may take its place in the sequential order at any moment
Close1(P, pcs, locals, k) ==
  P \cup UNION {{[val |-> locals[t][3], done |-> c.done \cup {t}] :
                   t \in Pending(pcs, locals, k) \ c.done} : c \in P}

RECURSIVE Close(_, _, _, _)
Close(P, pcs, locals, k) ==
  LET Q == Close1(P, pcs, locals, k)
  IN  IF Q = P THEN P ELSE Close(Q, pcs, locals, k)

\* a call that starts and returns in one step writes val
LinWrite(P, val) == {[val |-> val, done |-> c.done] : c \in P}

\* a read of key k was answered val
LinRead(P, val) == {c \in P : c.val = val}

\* the set of thread t returns: it has taken its place
LinReturn(P, t) == {[val |-> c.val, done |-> c.done \ {t}] : c \in {d \in P : t \in d.done}}

\* d[key] = value, up to the INSERT: it returns, or IntegrityError is caught
SetItem(t, key, value) ==
  /\ pc[t] = "idle"
  /\ LET r == setitem_try(table, key, value)
     IN  IF r.res.kind = "return"
         THEN /\ table' = r.tbl
              /\ committed' = CommitAfter(r.tbl)
              /\ last' = Called(t, "set:insert", key, Return("None"))
              /\ shadow' = [shadow EXCEPT ![key] = value]
              /\ lin' = [lin EXCEPT ![key] = Close(LinWrite(@, value), pc, local, key)]
              /\ UNCHANGED <<pc, local>>
         ELSE /\ pc' = [pc EXCEPT ![t] = "except"]
              /\ local' = [local EXCEPT ![t] = <<key, dumps(value), value>>]
              /\ last' = Called(t, "set:except", key, r.res)
              /\ lin' = [lin EXCEPT ![key] = Close(@, pc', local', key)]
              /\ UNCHANGED <<table, committed, shadow>>
  /\ UNCHANGED <<auto_commit, req_auto, flushed>>
  /\ UNCHANGED <<queueVars, ackVars, qdbVars>>

\* the except block of d[key] = value: the UPDATE, then the call returns
SetItemExcept(t) ==
  /\ pc[t] = "except"
  /\ LET r == setitem_except(table, local[t][1], local[t][2])
     IN  /\ table' = r.tbl
         /\ committed' = CommitAfter(r.tbl)
  /\ last' = Called(t, "set:update", local[t][1], Return("None"))
  /\ shadow' = [shadow EXCEPT ![local[t][1]] = local[t][3]]
  /\ lin' = [lin EXCEPT ![local[t][1]] = LinReturn(@, t)]
  /\ pc' = [pc EXCEPT ![t] = "idle"]
  /\ local' = [local EXCEPT ![t] = NoLocal]
  /\ UNCHANGED <<auto_commit, req_auto, flushed>>
  /\ UNCHANGED <<queueVars, ackVars, qdbVars>>

\* del d[key]
DelItem(t, key) ==
  /\ pc[t] = "idle"
  /\ LET r == delitem(table, key)
     IN  /\ table' = r.tbl
         /\ committed' = CommitAfter(r.tbl)
         /\ last' = Called(t, "del", key, r.res)
         /\ shadow' = IF r.res.kind = "return"
                      THEN [shadow EXCEPT ![key] = Unset]
                      ELSE shadow
         /\ lin' = IF r.res.kind = "return"
                   THEN [lin EXCEPT ![key] = Close(LinWrite(@, Unset), pc, local, key)]
                   ELSE lin
  /\ UNCHANGED <<auto_commit, req_auto, flushed, pc, local>>
  /\ UNCHANGED <<queueVars, ackVars, qdbVars>>

\* d[key]
GetItem(t, key) ==
  /\ pc[t] = "idle"
  /\ last' = Called(t, "get", key, getitem(table, key))
  /\ lin' = [lin EXCEPT ![key] = Close(LinRead(@, AbsVal(table, key)), pc, local, key)]
  /\ UNCHANGED <<table, committed, auto_commit, req_auto, flushed, pc, local, shadow>>
  /\ UNCHANGED <<queueVars, ackVars, qdbVars>>

\* key in d
Contains(t, key) ==
  /\ pc[t] = "idle"
  /\ last' = Called(t, "contains", key, Return(contains(table, key)))
  /\ lin' = [lin EXCEPT ![key] =
               Close({c \in @ : (c.val # Unset) = contains(table, key)}, pc, local, key)]
  /\ UNCHANGED <<table, committed, auto_commit, req_auto, flushed, pc, local, shadow>>
  /\ UNCHANGED <<queueVars, ackVars, qdbVars>>

\* len(d)
DictLen(t) ==
  /\ pc[t] = "idle"
  /\ last' = Called(t, "len", "none", Return(dict_len(table)))
  /\ UNCHANGED <<table, committed, auto_commit, req_auto, flushed, pc, local, shadow, lin>>
  /\ UNCHANGED <<queueVars, ackVars, qdbVars>>

\* iter(d), d.keys(), d.values(), d.items() and the iter* variants
Enum(t, m) ==
  /\ pc[t] = "idle"
  /\ last' = Called(t, m, "none", Enumerate(m))
  /\ UNCHANGED <<table, committed, auto_commit, req_auto, flushed, pc, local, shadow, lin>>
  /\ UNCHANGED <<queueVars, ackVars, qdbVars>>

DictStep(t) ==
  \/ \E k \in Keys, v \in Values : SetItem(t, k, v)
  \/ SetItemExcept(t)
  \/ \E k \in Keys : DelItem(t, k)
  \/ \E k \in Keys : GetItem(t, k)
  \/ \E k \in Keys : Contains(t, k)
  \/ DictLen(t)
  \/ \E m \in EnumMethods : Enum(t, m)

\* spec 4.4, the durability knob: an explicit flush commits what was deferred
Flush ==
  /\ \A t \in Threads : pc[t] = "idle"
  /\ committed' = table
  /\ flushed' = table
  /\ last' = Called("none", "flush", "none", Return("None"))
  /\ UNCHANGED <<table, auto_commit, req_auto, pc, local, shadow, lin>>
  /\ UNCHANGED <<queueVars, ackVars, qdbVars>>

\* the process dies and the file is reopened: only committed rows remain
Crash ==
  /\ table' = committed
  /\ pc' = [t \in Threads |-> "idle"]
  /\ local' = [t \in Threads |-> NoLocal]
  /\ last' = Called("none", "crash", "none", Return("None"))
  /\ lin' = [k \in Keys |-> {[val |-> AbsVal(committed, k), done |-> {}]}]
  /\ UNCHANGED <<committed, flushed, auto_commit, req_auto, shadow>>
  /\ UNCHANGED <<queueVars, ackVars, qdbVars>>

\* threads call into one DictSQLite instance in any interleaving
Next == \E t \in Threads : DictStep(t)

Spec == Init /\ [][Next]_vars

\* the calls of one sequence: a call starts only after the one before returned
Alone(t) == \A u \in Threads \ {t} : pc[u] = "idle"

SeqNext ==
  \E t \in Threads :
    \/ \E k \in Keys, v \in Values : Alone(t) /\ SetItem(t, k, v)
    \/ Alone(t) /\ SetItemExcept(t)
    \/ \E k \in Keys : Alone(t) /\ DelItem(t, k)
    \/ \E k \in Keys : Alone(t) /\ GetItem(t, k)
    \/ \E k \in Keys : Alone(t) /\ Contains(t, k)
    \/ Alone(t) /\ DictLen(t)
    \/ \E m \in EnumMethods : Alone(t) /\ Enum(t, m)

SpecSeq == Init /\ [][SeqNext]_vars

\* a sequence of calls and flushes, cut by crashes at any point
CrashNext == SeqNext \/ Flush \/ Crash

SpecCrash == Init /\ [][CrashNext]_vars

\* ======================================================= queue engine (4.5)

QThreads == Producers \cup Consumers

\* the instance lock (spec 4.2): free, or held by this very thread (reentrant)
lock_free_unguarded(lock, t) == TRUE
lock_free(lock, t) == lock = "free" \/ lock = t

\* put: assign next sequence (AUTOINCREMENT: above every sequence ever given)
next_sequence(high) == high + 1

\* the i-th item a producer puts
Item(p, i) == <<p, i>>

\* get, FIFO order: the present item with the lowest sequence
select_next_highest(rows) == CHOOSE r \in rows : \A o \in rows : o.seq <= r.seq
select_next(rows) == CHOOSE r \in rows : \A o \in rows : r.seq <= o.seq

\* empty() -> bool
q_empty(rows) == count(rows) = 0

\* put(value): enter the critical section
QPutAcquire(p) ==
  /\ qpc[p] = "idle"
  /\ qputs[p] < MaxPuts
  /\ lock_free(qlock, p)
  /\ qlock' = p
  /\ qpc' = [qpc EXCEPT ![p] = "put"]
  /\ UNCHANGED <<qrows, qseq, qlocal, qputs, created, delivered>>
  /\ UNCHANGED <<dictVars, ackVars, qdbVars>>

\* put(value): encode, assign the sequence, insert, leave the critical section
QPutInsert(p) ==
  /\ qpc[p] = "put"
  /\ LET seq == next_sequence(qseq)
         value == Item(p, qputs[p] + 1)
     IN  /\ qrows' = qrows \cup {[seq |-> seq, data |-> dumps(value)]}
         /\ qseq' = seq
         /\ created' = Append(created, [seq |-> seq, val |-> value])
  /\ qputs' = [qputs EXCEPT ![p] = @ + 1]
  /\ qlock' = "free"
  /\ qpc' = [qpc EXCEPT ![p] = "idle"]
  /\ UNCHANGED <<qlocal, delivered>>
  /\ UNCHANGED <<dictVars, ackVars, qdbVars>>

\* get(): enter the critical section
QGetAcquire(c) ==
  /\ qpc[c] = "idle"
  /\ lock_free(qlock, c)
  /\ qlock' = c
  /\ qpc' = [qpc EXCEPT ![c] = "select"]
  /\ UNCHANGED <<qrows, qseq, qlocal, qputs, created, delivered>>
  /\ UNCHANGED <<dictVars, ackVars, qdbVars>>

\* get(): select the next item, or fail with QueueEmptyError
QGetSelect(c) ==
  /\ qpc[c] = "select"
  /\ IF q_empty(qrows)
     THEN /\ qlock' = "free"
          /\ qpc' = [qpc EXCEPT ![c] = "idle"]
          /\ UNCHANGED qlocal
     ELSE /\ qlocal' = [qlocal EXCEPT ![c] = <<select_next(qrows)>>]
          /\ qpc' = [qpc EXCEPT ![c] = "delete"]
          /\ UNCHANGED qlock
  /\ UNCHANGED <<qrows, qseq, qputs, created, delivered>>
  /\ UNCHANGED <<dictVars, ackVars, qdbVars>>

\* get(): remove the selected item, leave the critical section, return it
QGetDelete(c) ==
  /\ qpc[c] = "delete"
  /\ LET row == qlocal[c][1]
     IN  /\ qrows' = {r \in qrows : r.seq # row.seq}
         /\ delivered' = Append(delivered, [seq |-> row.seq, val |-> loads(row.data).val])
  /\ qlocal' = [qlocal EXCEPT ![c] = <<>>]
  /\ qlock' = "free"
  /\ qpc' = [qpc EXCEPT ![c] = "idle"]
  /\ UNCHANGED <<qseq, qputs, created>>
  /\ UNCHANGED <<dictVars, ackVars, qdbVars>>

QueueNext ==
  \/ \E p \in Producers : QPutAcquire(p)
  \/ \E p \in Producers : QPutInsert(p)
  \/ \E c \in Consumers : QGetAcquire(c)
  \/ \E c \in Consumers : QGetSelect(c)
  \/ \E c \in Consumers : QGetDelete(c)

SpecQueue == Init /\ [][QueueNext]_vars

\* =============================================== acknowledgement queue (4.6)

AckIds == 0 .. (MaxAckPuts + 1)

Status(rows, id) ==
  IF \E r \in rows : r.seq = id
  THEN (CHOOSE r \in rows : r.seq = id).status
  ELSE "unknown"

SetStatus(rows, id, st) ==
  {IF r.seq = id THEN [r EXCEPT !.status = st] ELSE r : r \in rows}

Ready(rows) == {r \in rows : r.status = "ready"}

\* put(value): as the queue's put, status ready
ack_put(rows, high, value) ==
  [res |-> Return("None"), id |-> next_sequence(high),
   rows |-> rows \cup {[seq |-> next_sequence(high), data |-> dumps(value), status |-> "ready"]}]

\* get() -> (ack_id, value): the lowest-sequence ready item becomes unacknowledged
ack_get_any(rows) ==
  IF rows = {}
  THEN [res |-> Raise("Empty"), id |-> 0, rows |-> rows]
  ELSE LET r == select_next(rows)
       IN  [res |-> loads(r.data), id |-> r.seq, rows |-> SetStatus(rows, r.seq, "unack")]
ack_get(rows) ==
  IF Ready(rows) = {}
  THEN [res |-> Raise("Empty"), id |-> 0, rows |-> rows]
  ELSE LET r == select_next(Ready(rows))
       IN  [res |-> loads(r.data), id |-> r.seq, rows |-> SetStatus(rows, r.seq, "unack")]

\* unacknowledged -> st, or InvalidAckError when id is not an unacknowledged record
Transition(rows, id, st) ==
  IF Status(rows, id) = "unack"
  THEN [res |-> Return("None"), id |-> id, rows |-> SetStatus(rows, id, st)]
  ELSE [res |-> Raise("InvalidAckError"), id |-> id, rows |-> rows]

\* ack(ack_id)
ack(rows, id) == Transition(rows, id, "acked")

\* nack(ack_id)
nack(rows, id) == Transition(rows, id, "ready")

\* ack_failed(ack_id)
ack_failed(rows, id) == Transition(rows, id, "failed")

\* clear_acked() / clear_failed(): bulk-delete the records in that status
clear(rows, st) ==
  [res |-> Return("None"), id |-> 0, rows |-> {r \in rows : r.status # st}]

AckCalled(op, r) == [op |-> op, id |-> r.id, res |-> r.res]

\* the value of the n-th put: a text that tells it from the others
AckValue(n) == <<"v1", "v2", "v3", "v4", "v5">>[n]

AckPut ==
  /\ aseq < MaxAckPuts
  /\ LET r == ack_put(arows, aseq, AckValue(aseq + 1))
     IN  /\ arows' = r.rows
         /\ aseq' = r.id
         /\ alast' = AckCalled("put", r)
  /\ UNCHANGED <<dictVars, queueVars, qdbVars>>

AckGet ==
  /\ LET r == ack_get(arows)
     IN  /\ arows' = r.rows
         /\ alast' = AckCalled("get", r)
  /\ UNCHANGED aseq
  /\ UNCHANGED <<dictVars, queueVars, qdbVars>>

Ack(id) ==
  /\ LET r == ack(arows, id)
     IN  /\ arows' = r.rows
         /\ alast' = AckCalled("ack", r)
  /\ UNCHANGED aseq
  /\ UNCHANGED <<dictVars, queueVars, qdbVars>>

Nack(id) ==
  /\ LET r == nack(arows, id)
     IN  /\ arows' = r.rows
         /\ alast' = AckCalled("nack", r)
  /\ UNCHANGED aseq
  /\ UNCHANGED <<dictVars, queueVars, qdbVars>>

AckFailed(id) ==
  /\ LET r == ack_failed(arows, id)
     IN  /\ arows' = r.rows
         /\ alast' = AckCalled("ack_failed", r)
  /\ UNCHANGED aseq
  /\ UNCHANGED <<dictVars, queueVars, qdbVars>>

ClearAcked ==
  /\ LET r == clear(arows, "acked")
     IN  /\ arows' = r.rows
         /\ alast' = AckCalled("clear_acked", r)
  /\ UNCHANGED aseq
  /\ UNCHANGED <<dictVars, queueVars, qdbVars>>

ClearFailed ==
  /\ LET r == clear(arows, "failed")
     IN  /\ arows' = r.rows
         /\ alast' = AckCalled("clear_failed", r)
  /\ UNCHANGED aseq
  /\ UNCHANGED <<dictVars, queueVars, qdbVars>>

AckNext ==
  \/ AckPut
  \/ AckGet
  \/ \E id \in AckIds : Ack(id)
  \/ \E id \in AckIds : Nack(id)
  \/ \E id \in AckIds : AckFailed(id)
  \/ ClearAcked
  \/ ClearFailed

SpecAck == Init /\ [][AckNext]_vars

\* ================================== QuestDB client (questdb.py, qdb_api.py)

\* Python values, tagged with their type
PyInt(n) == <<"int", n>>
PyStr(s) == <<"str", s>>
PyBool(b) == <<"bool", b>>

\* type(value)
PyType(v) == v[1]

\* Python compares bool and int by number: True == 1, False == 0
IsNum(v) == PyType(v) \in {"int", "bool"}
Num(v) == IF PyType(v) = "bool" THEN (IF v[2] THEN 1 ELSE 0) ELSE v[2]
PyEq(a, b) == IF IsNum(a) /\ IsNum(b) THEN Num(a) = Num(b) ELSE a = b

\* sys.exit(status)
Exit(status) == [kind |-> "exit", val |-> status]

\* str(v), as an f-string writes the value into the URL
py_str(v) ==
  CASE PyType(v) = "str" -> v[2]
    [] PyType(v) = "bool" -> IF v[2] THEN "True" ELSE "False"
    [] OTHER -> CASE v[2] = 0 -> "0"
                  [] v[2] = 1 -> "1"
                  [] v[2] = 2 -> "2"
                  [] v[2] = 3 -> "3"
                  [] OTHER -> "-1"

\* urllib.parse.quote_plus on the query texts the calls are made with:
\* a space becomes "+", other text is kept, anything but text is a TypeError
Queries == {"", "select 1", "selec"}
quote_plus(q) ==
  IF PyType(q) # "str" THEN Raise("TypeError")
  ELSE Return(PyStr(CASE q[2] = "select 1" -> "select+1" [] OTHER -> q[2]))

Routes == {"imp", "exec", "exp"}

\* one entry of the API table
Entry(required, default, type) ==
  [required |-> required, default |-> default, type |-> type]

\* qdb_api.API: required, default and type of every declared parameter
API ==
  [imp |-> [atomicity |-> Entry(FALSE, PyInt(2), "int"),
            commitLag |-> Entry(FALSE, PyInt(0), "int"),
            durable |-> Entry(FALSE, PyBool(FALSE), "bool"),
            fmt |-> Entry(FALSE, PyStr("tabular"), "str"),
            forceHeader |-> Entry(FALSE, PyBool(FALSE), "bool"),
            maxUncommittedRows |-> Entry(FALSE, PyInt(0), "int"),
            name |-> Entry(FALSE, PyStr("test"), "str"),
            overwrite |-> Entry(FALSE, PyBool(FALSE), "bool"),
            partitionBy |-> Entry(FALSE, PyStr("NONE"), "str"),
            skipLev |-> Entry(FALSE, PyBool(FALSE), "bool"),
            timestamp |-> Entry(FALSE, PyStr("ts"), "str")],
   exec |-> [count |-> Entry(FALSE, PyBool(FALSE), "bool"),
             limit |-> Entry(FALSE, PyStr("10"), "str"),
             nm |-> Entry(FALSE, PyBool(FALSE), "bool"),
             query |-> Entry(TRUE, PyStr(""), "str"),
             timings |-> Entry(FALSE, PyBool(FALSE), "bool")],
   exp |-> [limit |-> Entry(FALSE, PyStr("10"), "str"),
            query |-> Entry(TRUE, PyStr(""), "str"),
            format |-> Entry(FALSE, PyStr("csv"), "str")]]

\* API[route]["method"]
API_method(route) == IF route = "imp" THEN "POST" ELSE "GET"

\* the validators of the API table
in_list(x, list) == Return(\E e \in list : PyEq(x, e))
at_least_zero(x) == IF IsNum(x) THEN Return(Num(x) >= 0) ELSE Raise("TypeError")
is_bool(x) == Return(PyType(x) = "bool")
not_empty(x) == Return(py_str(x) # "")
\* match(r'^\d+,?\d*$', x): a TypeError unless x is text
LimitTexts == {"10", "5", "10,20"}
limit_match(x) ==
  IF PyType(x) = "str" THEN Return(x[2] \in LimitTexts) ELSE Raise("TypeError")
\* sql_validator.parse(x).is_valid(): the verdict sql_ok of the sqlvalidator library
sql_valid(x, sql_ok) == Return(sql_ok)

\* API[route][parameter]["check"](x)
API_check(route, parameter, x, sql_ok) ==
  CASE parameter = "atomicity" -> in_list(x, {PyInt(0), PyInt(1), PyInt(2)})
    [] parameter \in {"commitLag", "maxUncommittedRows"} -> at_least_zero(x)
    [] parameter \in {"durable", "forceHeader", "overwrite", "skipLev",
                      "count", "nm", "timings"} -> is_bool(x)
    [] parameter = "fmt" -> in_list(x, {PyStr("tabular"), PyStr("json")})
    [] parameter \in {"name", "timestamp"} -> not_empty(x)
    [] parameter = "partitionBy" ->
         in_list(x, {PyStr("NONE"), PyStr("YEAR"), PyStr("MONTH"), PyStr("DAY"), PyStr("HOUR")})
    [] parameter = "limit" -> limit_match(x)
    [] parameter = "query" -> sql_valid(x, sql_ok)
    [] OTHER -> in_list(x, {PyStr("csv"), PyStr("pandas")})

\* the keys of the `parameters` dict of each route, in insertion order
ParamOrder(route) ==
  CASE route = "imp" -> <<"atomicity", "commitLag", "durable", "fmt", "forceHeader",
                          "maxUncommittedRows", "name", "overwrite", "partitionBy",
                          "skipLev", "timestamp">>
    [] route = "exec" -> <<"count", "limit", "nm", "query", "timings">>
    [] OTHER -> <<"limit", "query">>

\* the keyword arguments of each method
Formals(route) ==
  CASE route = "imp" -> {"atomicity", "commitLag", "durable", "fmt", "forceHeader",
                         "maxUncommittedRows", "name", "overwrite", "partitionBy",
                         "skipLev", "timestamp"}
    [] route = "exec" -> {"count", "limit", "nm", "query", "timings"}
    [] OTHER -> {"limit", "query", "output"}

\* the default of a keyword argument: exp's output has the default of "format"
FormalDefault(route, f) ==
  IF f = "output" THEN API[route]["format"].default ELSE API[route][f].default

\* the values a caller passes for a keyword argument, other than its default
ArgValues(f) ==
  CASE f = "atomicity" -> {PyInt(0), PyInt(3), PyBool(TRUE)}
    [] f \in {"commitLag", "maxUncommittedRows"} -> {PyInt(1), PyInt(-1), PyStr("x")}
    [] f \in {"durable", "forceHeader", "overwrite", "skipLev",
              "count", "nm", "timings"} -> {PyBool(TRUE), PyInt(1)}
    [] f = "fmt" -> {PyStr("json"), PyStr("xml")}
    [] f \in {"name", "timestamp"} -> {PyStr("trades"), PyStr(""), PyInt(1)}
    [] f = "partitionBy" -> {PyStr("DAY"), PyStr("WEEK")}
    [] f = "limit" -> {PyStr("5"), PyStr("10,20"), PyStr("-20"), PyInt(5)}
    [] f = "query" -> {PyStr("select 1"), PyStr("selec"), PyInt(1)}
    [] OTHER -> {PyStr("pandas"), PyStr("xml")}

AllArgValues == UNION {ArgValues(f) : f \in UNION {Formals(r) : r \in Routes}}

\* the calls of a route that pass at most MaxNonDefault arguments explicitly
Calls(route) ==
  UNION {{[f \in Formals(route) |-> IF f \in S THEN given[f] ELSE FormalDefault(route, f)] :
            given \in {g \in [S -> AllArgValues] : \A f \in S : g[f] \in ArgValues(f)}} :
         S \in {T \in SUBSET Formals(route) : Cardinality(T) <= MaxNonDefault}}

\* the `parameters` dict a method builds from its arguments: exec and exp
\* url-encode the query while building it, exp leaves output out
parameters(route, args) ==
  IF route = "imp"
  THEN Return([i \in 1..Len(ParamOrder(route)) |->
                 <<ParamOrder(route)[i], args[ParamOrder(route)[i]]>>])
  ELSE LET q == quote_plus(args["query"])
       IN IF q.kind = "raise" THEN q
          ELSE Return([i \in 1..Len(ParamOrder(route)) |->
                         LET k == ParamOrder(route)[i]
                         IN <<k, IF k = "query" THEN q.val ELSE args[k]>>])

\* help: print the description and exit
help(route, parameter) == Exit(1)

\* _not_compliant: print and call help
not_compliant(route, parameter) == help(route, parameter)

\* _check: exit on a mandatory parameter left at its default, else the
\* validator's verdict and then the type test
check(route, parameter, value, sql_ok) ==
  LET mandatory == API[route][parameter].required
      fnct == API_check(route, parameter, value, sql_ok)
      ptype == API[route][parameter].type
  IN IF mandatory /\ PyEq(value, API[route][parameter].default) THEN Exit(1)
     ELSE IF fnct.kind = "raise" THEN fnct
     ELSE Return(fnct.val /\ PyType(value) = ptype)

\* what a method returns once the response is there
Response(route, args) ==
  CASE route = "imp" -> IF args["fmt"] = PyStr("tabular") THEN Return("text")
                        ELSE IF args["fmt"] = PyStr("json") THEN Return("json")
                        ELSE Return("None")
    [] route = "exec" -> Return("json")
    [] OTHER -> IF args["output"] = PyStr("csv") THEN Return("text")
                ELSE IF args["output"] = PyStr("pandas") THEN Return("DataFrame")
                ELSE Return("None")

\* a method up to its checking loop
Enter(route, args, env) ==
  /\ qdb_pc = "idle"
  /\ qdb_route' = route
  /\ qdb_args' = args
  /\ qdb_env' = env
  /\ LET ps == parameters(route, args)
     IN CASE ps.kind = "raise" ->
               /\ qdb_pc' = "raised"
               /\ qdb_out' = ps
               /\ qdb_parameters' = <<>>
          [] ps.kind # "raise" /\ ~env.exists ->
               /\ qdb_pc' = "exited"
               /\ qdb_out' = Exit(1)
               /\ qdb_parameters' = ps.val
          [] OTHER ->
               /\ qdb_pc' = "loop"
               /\ qdb_out' = qdb_out
               /\ qdb_parameters' = ps.val
  /\ UNCHANGED <<qdb_i, qdb_url, qdb_passed, qdb_request>>
  /\ UNCHANGED <<dictVars, queueVars, ackVars>>

\* QuestDB.imp: the file must exist
Imp(args, exists) ==
  /\ qdb_pc = "idle"
  /\ Enter("imp", args, [exists |-> exists, sql_ok |-> TRUE])

\* QuestDB.exec
Exec(args, sql_ok) ==
  /\ qdb_pc = "idle"
  /\ Enter("exec", args, [exists |-> TRUE, sql_ok |-> sql_ok])

\* QuestDB.exp
Exp(args, sql_ok) ==
  /\ qdb_pc = "idle"
  /\ Enter("exp", args, [exists |-> TRUE, sql_ok |-> sql_ok])

\* one turn of the loop over parameters.items()
CheckParameter ==
  /\ qdb_pc = "loop"
  /\ qdb_i <= Len(qdb_parameters)
  /\ LET k == qdb_parameters[qdb_i][1]
         v == qdb_parameters[qdb_i][2]
         r == check(qdb_route, k, v, qdb_env.sql_ok)
     IN CASE r.kind = "exit" ->
               /\ qdb_pc' = "exited"
               /\ qdb_out' = r
               /\ UNCHANGED <<qdb_url, qdb_passed>>
          [] r.kind = "raise" ->
               /\ qdb_pc' = "raised"
               /\ qdb_out' = r
               /\ UNCHANGED <<qdb_url, qdb_passed>>
          [] r.kind = "return" /\ ~r.val ->
               /\ qdb_pc' = "exited"
               /\ qdb_out' = not_compliant(qdb_route, k)
               /\ UNCHANGED <<qdb_url, qdb_passed>>
          [] OTHER ->
               /\ qdb_url' = IF ~PyEq(v, API[qdb_route][k].default)
                             THEN Append(qdb_url, <<k, py_str(v)>>)
                             ELSE qdb_url
               /\ qdb_passed' = qdb_passed \cup {k}
               /\ UNCHANGED <<qdb_pc, qdb_out>>
  /\ qdb_i' = qdb_i + 1
  /\ UNCHANGED <<qdb_route, qdb_args, qdb_env, qdb_parameters, qdb_request>>
  /\ UNCHANGED <<dictVars, queueVars, ackVars>>

\* session.request(method, url) after the loop, and the return
SendRequest ==
  /\ qdb_pc = "loop"
  /\ qdb_i > Len(qdb_parameters)
  /\ qdb_request' = Append(qdb_request,
                           [method |-> API_method(IF qdb_route = "exp" THEN "exec" ELSE qdb_route),
                            route |-> qdb_route,
                            url |-> qdb_url])
  /\ qdb_out' = Response(qdb_route, qdb_args)
  /\ qdb_pc' = "returned"
  /\ UNCHANGED <<qdb_route, qdb_args, qdb_env, qdb_parameters, qdb_i, qdb_url, qdb_passed>>
  /\ UNCHANGED <<dictVars, queueVars, ackVars>>

QdbNext ==
  \/ \E args \in Calls("imp"), exists \in BOOLEAN : Imp(args, exists)
  \/ \E args \in Calls("exec"), sql_ok \in BOOLEAN : Exec(args, sql_ok)
  \/ \E args \in Calls("exp"), sql_ok \in BOOLEAN : Exp(args, sql_ok)
  \/ CheckParameter
  \/ SendRequest

SpecQdb == Init /\ [][QdbNext]_vars

\* ================================================================ claims

UniqueKeys(tbl) == \A r1 \in tbl, r2 \in tbl : r1[1] = r2[1] => r1 = r2

IsReturn(res, v) == res.kind = "return" /\ res.val = v
IsRaise(res, e) == res.kind = "raise" /\ res.val = e

\* C1: in a sequence of set and delete calls, once set(k, v) has returned and
\* no later set(k, .) or delete(k) has run, get(k) returns v and contains(k)
\* is true.
C1_SetThenGet ==
  \A k \in Keys :
    shadow[k] # Unset =>
      /\ IsReturn(getitem(table, k), shadow[k])
      /\ contains(table, k)

\* a set that overwrote has returned; both keys hold what was set last
C1_Witness ==
  /\ last.op = "set:update"
  /\ shadow["a"] = "y"
  /\ shadow["b"] = "x"
  /\ IsReturn(getitem(table, "a"), "y")

\* C2: set on a present key overwrites (get(k) == v2), the table never holds
\* two records for one key, and size() is the same before and after that set
\* (neither the failed insert nor the update changes the count).
C2_UpsertOverwrites ==
  [][/\ UniqueKeys(table')
     /\ last'.op = "set:insert" => ~contains(table, last'.key)
     /\ last'.op = "set:except" =>
          contains(table, last'.key) /\ dict_len(table') = dict_len(table)
     /\ last'.op = "set:update" =>
          /\ dict_len(table') = dict_len(table)
          /\ IsReturn(getitem(table', last'.key), local[last'.thr][3])]_vars

\* set(a, x); set(a, y) has run: one record, holding y
C2_Witness ==
  /\ last.op = "set:update"
  /\ last.key = "a"
  /\ dict_len(table) = 1
  /\ IsReturn(getitem(table, "a"), "y")

\* C3: no set, delete, get or contains of another thread takes effect between
\* the failed insert and the update of a set: while a thread is between the
\* two, no other thread changes the table or is answered a get or contains.
C3_UpsertAtomic ==
  [][\A t \in Threads :
       (pc[t] = "except" /\ last'.thr # t) =>
         /\ table' = table
         /\ last'.op \notin {"get", "contains"}]_vars

\* C4: delete(k) on an absent key fails with KeyNotFoundError and leaves the
\* store unchanged; delete(k) on a present key leaves contains(k) false.
C4_DeleteContract ==
  [][last'.op = "del" =>
       IF contains(table, last'.key)
       THEN ~contains(table', last'.key)
       ELSE IsRaise(last'.res, "KeyError") /\ table' = table]_vars

\* C5: every enumeration call fails with the not-supported error, returns no
\* data and leaves the stored records unchanged, on an empty or populated store.
C5_EnumerationUnsupported ==
  [][last'.op \in EnumMethods =>
       /\ IsRaise(last'.res, "NotImplementedError")
       /\ table' = table
       /\ committed' = committed]_vars

\* keys() was called on a populated store
C5_Witness ==
  /\ last.op = "keys"
  /\ last.res.kind = "raise"
  /\ dict_len(table) = 2

\* C6: get(k) raises KeyError exactly when k is absent: it returns a value
\* iff contains(k), and never a default.
C6_GetFailsIffAbsent ==
  /\ \A k \in Keys :
       /\ getitem(table, k).kind = "return" <=> contains(table, k)
       /\ ~contains(table, k) => IsRaise(getitem(table, k), "KeyError")
  /\ last.op = "get" =>
       IF contains(table, last.key)
       THEN last.res.kind = "return" /\ last.res.val \in Values
       ELSE IsRaise(last.res, "KeyError")

\* get raised KeyError for an absent key while another key is present
C6_Witness ==
  /\ last.op = "get"
  /\ IsRaise(last.res, "KeyError")
  /\ dict_len(table) = 1

Seqs(log) == {log[i].seq : i \in 1 .. Len(log)}

Increasing(log) ==
  \A i \in 1 .. Len(log), j \in 1 .. Len(log) : i < j => log[i].seq < log[j].seq

AllPut == \A p \in Producers : qputs[p] = MaxPuts /\ qpc[p] = "idle"

\* C8: with N producers putting k times each and M consumers getting, under
\* every interleaving exactly N*k records are created, their sequences are
\* pairwise distinct and strictly increasing in order of assignment, and no
\* item is returned by two gets.
C8_ConcurrentQueue ==
  /\ AllPut =>
       /\ Len(created) = Cardinality(Producers) * MaxPuts
       /\ Cardinality(Seqs(created)) = Cardinality(Producers) * MaxPuts
  /\ Increasing(created)
  /\ \A r1 \in qrows, r2 \in qrows : r1.seq = r2.seq => r1 = r2
  /\ \A i \in 1 .. Len(delivered), j \in 1 .. Len(delivered) :
       i # j => delivered[i].seq # delivered[j].seq
  /\ \A i \in 1 .. Len(delivered) :
       \E j \in 1 .. Len(created) : created[j] = delivered[i]

\* both producers are done, every item was returned, and the producers' puts
\* were interleaved in both orders
C8_Witness ==
  /\ AllPut
  /\ Len(delivered) = Cardinality(Producers) * MaxPuts
  /\ \E i \in 1 .. Len(created) : i > 1 /\ created[i].val[1] = "p1" /\ created[i - 1].val[1] = "p2"
  /\ \E i \in 1 .. Len(created) : i > 1 /\ created[i].val[1] = "p2" /\ created[i - 1].val[1] = "p1"

\* C9: on the FIFO queue each get returns the present item with the lowest
\* sequence, so items leave in the order they were put, empty() is true once
\* every put item has been got, and no sequence is reused after removal.
C9_Fifo ==
  /\ Increasing(delivered)
  /\ \A i \in 1 .. Len(delivered) : \A r \in qrows : delivered[i].seq < r.seq
  /\ Len(delivered) <= Len(created)
  /\ \A i \in 1 .. Len(delivered) : i <= Len(created) => delivered[i] = created[i]
  /\ Len(delivered) = Len(created) => q_empty(qrows)
  /\ Increasing(created)
  /\ \A r \in qrows : r.seq <= qseq
  /\ \A i \in 1 .. Len(created) : created[i].seq <= qseq

\* three items were put and came out in that order, gets and puts interleaved
C9_Witness ==
  /\ Len(delivered) >= 3
  /\ Len(delivered) = Len(created)
  /\ q_empty(qrows)
  /\ \A i \in 1 .. Len(delivered) : delivered[i] = created[i]

\* C10: ack(id) succeeds only on an unacknowledged record and makes it
\* acknowledged; on an acknowledged, failed, re-readied or unknown id it fails
\* with InvalidAckError and changes no record.  get returns only ready
\* records, and nack(id) on an unacknowledged record makes it retrievable.
C10_AckProtocol ==
  [][/\ alast'.op = "ack" =>
          IF Status(arows, alast'.id) = "unack"
          THEN /\ alast'.res.kind = "return"
               /\ arows' = SetStatus(arows, alast'.id, "acked")
               /\ Status(arows', alast'.id) = "acked"
          ELSE /\ IsRaise(alast'.res, "InvalidAckError")
               /\ arows' = arows
     /\ (alast'.op = "get" /\ alast'.res.kind = "return") =>
          /\ Status(arows, alast'.id) = "ready"
          /\ Status(arows', alast'.id) = "unack"
     /\ (alast'.op = "get" /\ alast'.res.kind = "raise") => Ready(arows) = {}
     /\ (alast'.op = "nack" /\ Status(arows, alast'.id) = "unack") =>
          /\ alast'.res.kind = "return"
          /\ Status(arows', alast'.id) = "ready"
          /\ ack_get(arows').res.kind = "return"
          /\ alast'.id \in {r.seq : r \in Ready(arows')}]_vars

\* a repeated ack failed while another record, once nacked, is out again
C10_Witness ==
  /\ alast.op = "ack"
  /\ IsRaise(alast.res, "InvalidAckError")
  /\ Status(arows, alast.id) = "acked"
  /\ \E r \in arows : r.status = "failed"
  /\ \E r \in arows : r.status = "unack"

\* C11: concurrent set(k, .) and delete(k) calls: every set returns without
\* surfacing the uniqueness conflict, k never has two records, and once all
\* calls have finished the outcome (k absent, or present with a value one of
\* the sets wrote) is that of some sequential order of the calls, which the
\* answers given to get and contains along the way agree with.
C11_SequentialOutcome ==
  /\ UniqueKeys(table)
  /\ \A k \in Keys : lin[k] # {}
  /\ last.op \in {"set:insert", "set:update"} => last.res.kind = "return"
  /\ \A t \in Threads : pc[t] = "except" => ENABLED SetItemExcept(t)
  /\ (\A t \in Threads : pc[t] = "idle") =>
       \A k \in Keys :
         /\ AbsVal(table, k) \in {c.val : c \in lin[k]}
         /\ AbsVal(table, k) \in Values \cup {Unset}

\* a set whose UPDATE found the row deleted by another thread has returned
C11_Witness ==
  /\ last.op = "set:update"
  /\ ~contains(table, last.key)
  /\ \A t \in Threads : pc[t] = "idle"
  /\ shadow[last.key] # Unset

\* C12: set(k, v) and delete(k) leave the presence and value of every other
\* key unchanged; get, contains and size change no record; so size() is the
\* number of distinct keys that were set and not deleted since: it counts the
\* stored keys, and a key is stored when every sequential order of the calls
\* made so far leaves it set, absent when every order leaves it deleted.
C12_Frame ==
  [][/\ last'.op \in {"set:insert", "set:except", "set:update", "del"} =>
          \A j \in Keys \ {last'.key} :
            /\ {r \in table' : r[1] = j} = {r \in table : r[1] = j}
            /\ contains(table', j) = contains(table, j)
            /\ getitem(table', j) = getitem(table, j)
     /\ last'.op \in {"get", "contains", "len"} => table' = table
     /\ last'.op = "len" =>
          last'.res = Return(Cardinality({k \in Keys : contains(table, k)}))
     /\ dict_len(table') = Cardinality({k \in Keys : contains(table', k)})
     /\ \A k \in Keys :
          /\ (\A c \in lin'[k] : c.val # Unset) => contains(table', k)
          /\ (\A c \in lin'[k] : c.val = Unset) => ~contains(table', k)]_vars

\* delete(a) ran while b was stored: b is still there and size() is 1
C12_Witness ==
  /\ last.op = "del"
  /\ last.key = "a"
  /\ shadow["b"] = "y"
  /\ lin["a"] = {[val |-> Unset, done |-> {}]}
  /\ IsReturn(getitem(table, "b"), "y")
  /\ dict_len(table) = 1

\* the parameters the API table declares for a route
Declared(route) == DOMAIN API[route]

\* the value a call gives to a declared parameter: exp takes "format" as its
\* output argument, exec and exp send the query url-encoded
Given(route, args, k) ==
  IF k = "format" THEN args["output"]
  ELSE IF k = "query" /\ quote_plus(args[k]).kind = "return" THEN quote_plus(args[k]).val
  ELSE args[k]

\* a declared parameter's value has the declared type, satisfies the validator
\* and, when the parameter is required, is not the default
Compliant(route, k, v, sql_ok) ==
  /\ PyType(v) = API[route][k].type
  /\ API_check(route, k, v, sql_ok).kind = "return"
  /\ API_check(route, k, v, sql_ok).val
  /\ API[route][k].required => ~PyEq(v, API[route][k].default)

\* the process is gone with status 1: sys.exit(1), or an exception nobody catches
ExitedWithStatus1 ==
  \/ qdb_pc = "exited" /\ qdb_out.kind = "exit" /\ qdb_out.val = 1
  \/ qdb_pc = "raised"

\* C13: imp, exec and exp issue the HTTP request only after every parameter the
\* API table declares for the route has passed its check; when a declared
\* parameter does not comply the process exits with status 1 and no request
\* is sent; the URL of a request carries exactly the declared parameters
\* whose value differs from the default.
C13_CheckedBeforeRequest ==
  qdb_route \in Routes =>
    LET ok(k) == Compliant(qdb_route, k, Given(qdb_route, qdb_args, k), qdb_env.sql_ok)
        carried == {k \in Declared(qdb_route) :
                      ~PyEq(Given(qdb_route, qdb_args, k), API[qdb_route][k].default)}
    IN /\ qdb_request # <<>> =>
            \A k \in Declared(qdb_route) : k \in qdb_passed /\ ok(k)
       /\ (qdb_pc # "loop" /\ \E k \in Declared(qdb_route) : ~ok(k)) =>
            ExitedWithStatus1 /\ qdb_request = <<>>
       /\ ExitedWithStatus1 => qdb_request = <<>>
       /\ qdb_request # <<>> =>
            /\ Len(qdb_url) = Cardinality(carried)
            /\ {qdb_url[i] : i \in 1..Len(qdb_url)} =
                 {<<k, py_str(Given(qdb_route, qdb_args, k))>> : k \in carried}
            /\ qdb_request[1].url = qdb_url

====
